---- MODULE Spec2Model ----
(***************************************************************************)
(* A model of the crate `trying`: the tri-state warn_result::Result with   *)
(* its carrier MaybeWarn, its combinators, its Try/FromResidual            *)
(* implementations, its Termination sink and its FromIterator fold, and    *)
(* the drop-guarded assert::Assert.                                        *)
(*                                                                         *)
(* The model runs one of three units, chosen in Init:                      *)
(*   "result"    a combinator of Result applied to a receiver,             *)
(*   "from_iter" one run of Result::from_iter, one scan step at a time,    *)
(*   "assert"    the life of one Assert value.                             *)
(* A closure argument is FnOnce: it runs at most once, so it is modelled   *)
(* by the value it returns when invoked, and every operator that takes a   *)
(* closure also returns the sequence of arguments it invoked it with.      *)
(***************************************************************************)
EXTENDS Integers, Sequences, FiniteSets, TLC

VARIABLES
    unit,    \* which unit this behaviour runs
    op,      \* result unit: the last combinator applied ("none" before any)
    recv,    \* result unit: the receiver (self) of that call
    fret,    \* result unit: what the closure returns if it is invoked
    calls,   \* result unit: the arguments the closure was invoked with
    out,     \* result unit and from_iter: the value returned
    stderr,  \* result unit: the lines report wrote to the error stream
    items,   \* from_iter: the input sequence
    pos,     \* from_iter: how many items were pulled from the input
    state,   \* from_iter: state
    warns,   \* from_iter: warns
    outv,    \* from_iter: the values the scan yielded to collect()
    pc,      \* from_iter: "scan", "match" or "done"
    asrt,    \* assert: the AssertInner of the live value, Nil when none is live
    aprev,   \* assert: the AssertInner of the value the last operation took
    aop,     \* assert: the last operation ("none" before any)
    panics,  \* assert: the panics raised, in order
    acalls,  \* assert: how often the last operation invoked its closure
    flow,    \* assert: what the last ? or report did: continue, the value returned
    aarg,    \* assert: the argument of the last operation, Nil when it has none
    stdout   \* assert: the lines report printed

ResultVars == <<op, recv, fret, calls, out, stderr>>
IterVars   == <<items, pos, state, warns, outv, pc>>
AssertVars == <<asrt, aprev, aop, panics, acalls, flow, aarg, stdout>>

vars == <<unit, ResultVars, IterVars, AssertVars>>

\* ------------------------------------------------------------------ bounds

MaxLen == 4

Vals  == {1, 2}
Warns == {"a", "b"}
Errs  == {"e1", "e2"}

\* ------------------------------------------------------------------ values

Nil == [tag |-> "Nil"]

Ok(v)      == [tag |-> "Ok", val |-> v]
Warn(v, w) == [tag |-> "Warn", val |-> v, warn |-> w]
Err(e)     == [tag |-> "Err", err |-> e]

MwOk(v)      == [tag |-> "MwOk", val |-> v]
MwWarn(v, w) == [tag |-> "MwWarn", val |-> v, warn |-> w]

Some(v) == [tag |-> "Some", val |-> v]
None    == [tag |-> "None"]

CoreOk(v)  == [tag |-> "CoreOk", val |-> v]
CoreErr(e) == [tag |-> "CoreErr", err |-> e]

Continue(c) == [tag |-> "Continue", val |-> c]
Break(b)    == [tag |-> "Break", val |-> b]

ResultOf(T, E, W) ==
    {Ok(v) : v \in T} \cup {Warn(v, w) : v \in T, w \in W} \cup {Err(e) : e \in E}

MaybeWarnOf(T, W) == {MwOk(v) : v \in T} \cup {MwWarn(v, w) : v \in T, w \in W}

OptionOf(T) == {Some(v) : v \in T} \cup {None}

CoreResultOf(T, E) == {CoreOk(v) : v \in T} \cup {CoreErr(e) : e \in E}

Results == ResultOf(Vals, Errs, Warns)

\* ------------------------------------------------- conversions, Try, carrier

from_maybe_warn(m) ==
    IF m.tag = "MwOk" THEN Ok(m.val) ELSE Warn(m.val, m.warn)

\* The lift with both arms building Ok.
from_core_result_all_ok(r) ==
    IF r.tag = "CoreOk" THEN Ok(r.val) ELSE Ok(r.err)

from_core_result(r) ==
    IF r.tag = "CoreOk" THEN Ok(r.val) ELSE Err(r.err)

\* branch handing the closure MaybeWarn::Ok for a Warn receiver.
branch_drops_warn(self) ==
    CASE self.tag = "Ok"   -> Continue(MwOk(self.val))
      [] self.tag = "Warn" -> Continue(MwOk(self.val))
      [] self.tag = "Err"  -> Break(Err(self.err))

branch(self) ==
    CASE self.tag = "Ok"   -> Continue(MwOk(self.val))
      [] self.tag = "Warn" -> Continue(MwWarn(self.val, self.warn))
      [] self.tag = "Err"  -> Break(Err(self.err))

from_residual(residual) == Err(residual.err)

\* FromResidual<CoreResult<Infallible, E>>: the residual is CoreResult::Err(err).
core_from_residual(residual) == Err(residual.err)

discard_warnings(self) == self.val

\* ------------------------------------------------------------- combinators
\* Each returns [out |-> the result, calls |-> the closure's invocations].

map(self, f) ==
    LET b == branch(self)
    IN  IF b.tag = "Break"
        THEN [out |-> from_residual(b.val), calls |-> <<>>]
        ELSE [out |-> from_maybe_warn(f), calls |-> <<b.val>>]

map_val(self, f) ==
    CASE self.tag = "Ok"   -> [out |-> Ok(f), calls |-> <<self.val>>]
      [] self.tag = "Warn" -> [out |-> Warn(f, self.warn), calls |-> <<self.val>>]
      [] self.tag = "Err"  -> [out |-> Err(self.err), calls |-> <<>>]

map_warn(self, f) ==
    CASE self.tag = "Ok"   -> [out |-> Ok(self.val), calls |-> <<>>]
      [] self.tag = "Warn" -> [out |-> Warn(self.val, f), calls |-> <<self.warn>>]
      [] self.tag = "Err"  -> [out |-> Err(self.err), calls |-> <<>>]

map_err(self, f) ==
    CASE self.tag = "Ok"   -> [out |-> Ok(self.val), calls |-> <<>>]
      [] self.tag = "Warn" -> [out |-> Warn(self.val, self.warn), calls |-> <<>>]
      [] self.tag = "Err"  -> [out |-> Err(f), calls |-> <<self.err>>]

and_then(self, f) ==
    LET b == branch(self)
    IN  IF b.tag = "Break"
        THEN [out |-> from_residual(b.val), calls |-> <<>>]
        ELSE [out |-> f, calls |-> <<b.val>>]

\* or_else returning Ok for a Warn receiver.
or_else_drops_warn(self, f) ==
    CASE self.tag = "Ok"   -> [out |-> Ok(self.val), calls |-> <<>>]
      [] self.tag = "Warn" -> [out |-> Ok(self.val), calls |-> <<>>]
      [] self.tag = "Err"  -> [out |-> f, calls |-> <<self.err>>]

or_else(self, f) ==
    CASE self.tag = "Ok"   -> [out |-> Ok(self.val), calls |-> <<>>]
      [] self.tag = "Warn" -> [out |-> Warn(self.val, self.warn), calls |-> <<>>]
      [] self.tag = "Err"  -> [out |-> f, calls |-> <<self.err>>]

\* transpose_lossy dropping the diagnostic of Warn(Some(v), w) too.
transpose_lossy_drops_warn(self) ==
    CASE self.tag = "Ok" /\ self.val.tag = "Some"   -> Some(Ok(self.val.val))
      [] self.tag = "Ok" /\ self.val.tag = "None"   -> None
      [] self.tag = "Warn" /\ self.val.tag = "None" -> None
      [] self.tag = "Warn" /\ self.val.tag = "Some" -> Some(Ok(self.val.val))
      [] self.tag = "Err"                           -> Some(Err(self.err))

transpose_lossy(self) ==
    CASE self.tag = "Ok" /\ self.val.tag = "Some"   -> Some(Ok(self.val.val))
      [] self.tag = "Ok" /\ self.val.tag = "None"   -> None
      [] self.tag = "Warn" /\ self.val.tag = "None" -> None
      [] self.tag = "Warn" /\ self.val.tag = "Some" -> Some(Warn(self.val.val, self.warn))
      [] self.tag = "Err"                           -> Some(Err(self.err))

\* flatten_inner losing the outer diagnostic of Warn(Ok(v), w).
flatten_inner_loses_outer(self) ==
    CASE self.tag = "Ok" /\ self.val.tag = "Ok"     -> Ok(self.val.val)
      [] self.tag = "Ok" /\ self.val.tag = "Warn"   -> Warn(self.val.val, self.val.warn)
      [] self.tag = "Warn" /\ self.val.tag = "Warn" -> Warn(self.val.val, self.val.warn)
      [] self.tag = "Warn" /\ self.val.tag = "Ok"   -> Ok(self.val.val)
      [] self.tag = "Ok" /\ self.val.tag = "Err"    -> Err(self.val.err)
      [] self.tag = "Warn" /\ self.val.tag = "Err"  -> Err(self.val.err)
      [] self.tag = "Err"                           -> Err(self.err)

flatten_inner(self) ==
    CASE self.tag = "Ok" /\ self.val.tag = "Ok"     -> Ok(self.val.val)
      [] self.tag = "Ok" /\ self.val.tag = "Warn"   -> Warn(self.val.val, self.val.warn)
      [] self.tag = "Warn" /\ self.val.tag = "Warn" -> Warn(self.val.val, self.val.warn)
      [] self.tag = "Warn" /\ self.val.tag = "Ok"   -> Warn(self.val.val, self.warn)
      [] self.tag = "Ok" /\ self.val.tag = "Err"    -> Err(self.val.err)
      [] self.tag = "Warn" /\ self.val.tag = "Err"  -> Err(self.val.err)
      [] self.tag = "Err"                           -> Err(self.err)

\* flatten_outer keeping the inner diagnostic of Warn(Warn(v, wi), wo).
flatten_outer_takes_inner(self) ==
    CASE self.tag = "Ok" /\ self.val.tag = "Ok"     -> Ok(self.val.val)
      [] self.tag = "Ok" /\ self.val.tag = "Warn"   -> Warn(self.val.val, self.val.warn)
      [] self.tag = "Warn" /\ self.val.tag = "Ok"   -> Warn(self.val.val, self.warn)
      [] self.tag = "Warn" /\ self.val.tag = "Warn" -> Warn(self.val.val, self.val.warn)
      [] self.tag = "Ok" /\ self.val.tag = "Err"    -> Err(self.val.err)
      [] self.tag = "Warn" /\ self.val.tag = "Err"  -> Err(self.val.err)
      [] self.tag = "Err"                           -> Err(self.err)

flatten_outer(self) ==
    CASE self.tag = "Ok" /\ self.val.tag = "Ok"     -> Ok(self.val.val)
      [] self.tag = "Ok" /\ self.val.tag = "Warn"   -> Warn(self.val.val, self.val.warn)
      [] self.tag = "Warn" /\ self.val.tag = "Ok"   -> Warn(self.val.val, self.warn)
      [] self.tag = "Warn" /\ self.val.tag = "Warn" -> Warn(self.val.val, self.warn)
      [] self.tag = "Ok" /\ self.val.tag = "Err"    -> Err(self.val.err)
      [] self.tag = "Warn" /\ self.val.tag = "Err"  -> Err(self.val.err)
      [] self.tag = "Err"                           -> Err(self.err)

\* ------------------------------------------------------------- Termination
\* A `T: Termination` payload is given by what its own report() does: the exit
\* code it returns and the lines it writes.

TermVals == [code : {"SUCCESS", "FAILURE"}, lines : {<<>>, <<<<"Inner", "x">>>>}]

\* report writing the warning after the carried value was reported.
report_warn_last(self) ==
    CASE self.tag = "Ok" ->
            [status |-> self.val.code, lines |-> self.val.lines]
      [] self.tag = "Warn" ->
            [status |-> self.val.code,
             lines  |-> self.val.lines \o <<<<"Warning", self.warn>>>>]
      [] self.tag = "Err" ->
            [status |-> "FAILURE", lines |-> <<<<"Error", self.err>>>>]

report(self) ==
    CASE self.tag = "Ok" ->
            [status |-> self.val.code, lines |-> self.val.lines]
      [] self.tag = "Warn" ->
            [status |-> self.val.code,
             lines  |-> <<<<"Warning", self.warn>>>> \o self.val.lines]
      [] self.tag = "Err" ->
            [status |-> "FAILURE", lines |-> <<<<"Error", self.err>>>>]

\* ------------------------------------------------------------ the result unit

NoResult ==
    /\ op = "none" /\ recv = Nil /\ fret = Nil /\ calls = <<>> /\ out = Nil
    /\ stderr = <<>>

NoIter ==
    /\ items = <<>> /\ pos = 0 /\ state = Nil /\ warns = <<>> /\ outv = <<>>
    /\ pc = "idle"

NoAssert ==
    /\ asrt = Nil /\ aprev = Nil /\ aop = "none" /\ panics = <<>> /\ acalls = 0
    /\ flow = Nil /\ aarg = Nil /\ stdout = <<>>

InitResult ==
    /\ unit = "result"
    /\ NoResult /\ NoIter /\ NoAssert

Others == <<unit, IterVars, AssertVars>>

Map ==
    \E self \in Results, f \in MaybeWarnOf(Vals, Warns) :
        LET r == map(self, f)
        IN  /\ unit = "result"
            /\ op' = "map" /\ recv' = self /\ fret' = f
            /\ calls' = r.calls /\ out' = r.out /\ stderr' = <<>>
            /\ UNCHANGED Others

MapVal ==
    \E self \in Results, f \in Vals :
        LET r == map_val(self, f)
        IN  /\ unit = "result"
            /\ op' = "map_val" /\ recv' = self /\ fret' = f
            /\ calls' = r.calls /\ out' = r.out /\ stderr' = <<>>
            /\ UNCHANGED Others

MapWarn ==
    \E self \in Results, f \in Warns :
        LET r == map_warn(self, f)
        IN  /\ unit = "result"
            /\ op' = "map_warn" /\ recv' = self /\ fret' = f
            /\ calls' = r.calls /\ out' = r.out /\ stderr' = <<>>
            /\ UNCHANGED Others

MapErr ==
    \E self \in Results, f \in Errs :
        LET r == map_err(self, f)
        IN  /\ unit = "result"
            /\ op' = "map_err" /\ recv' = self /\ fret' = f
            /\ calls' = r.calls /\ out' = r.out /\ stderr' = <<>>
            /\ UNCHANGED Others

AndThen ==
    \E self \in Results, f \in Results :
        LET r == and_then(self, f)
        IN  /\ unit = "result"
            /\ op' = "and_then" /\ recv' = self /\ fret' = f
            /\ calls' = r.calls /\ out' = r.out /\ stderr' = <<>>
            /\ UNCHANGED Others

OrElse ==
    \E self \in Results, f \in Results :
        LET r == or_else(self, f)
        IN  /\ unit = "result"
            /\ op' = "or_else" /\ recv' = self /\ fret' = f
            /\ calls' = r.calls /\ out' = r.out /\ stderr' = <<>>
            /\ UNCHANGED Others

TransposeLossy ==
    \E self \in ResultOf(OptionOf(Vals), Errs, Warns) :
        LET r == [out |-> transpose_lossy(self), calls |-> <<>>]
        IN  /\ unit = "result"
            /\ op' = "transpose_lossy" /\ recv' = self /\ fret' = Nil
            /\ calls' = r.calls /\ out' = r.out /\ stderr' = <<>>
            /\ UNCHANGED Others

FlattenInner ==
    \E self \in ResultOf(Results, Errs, Warns) :
        LET r == [out |-> flatten_inner(self), calls |-> <<>>]
        IN  /\ unit = "result"
            /\ op' = "flatten_inner" /\ recv' = self /\ fret' = Nil
            /\ calls' = r.calls /\ out' = r.out /\ stderr' = <<>>
            /\ UNCHANGED Others

FlattenOuter ==
    \E self \in ResultOf(Results, Errs, Warns) :
        LET r == [out |-> flatten_outer(self), calls |-> <<>>]
        IN  /\ unit = "result"
            /\ op' = "flatten_outer" /\ recv' = self /\ fret' = Nil
            /\ calls' = r.calls /\ out' = r.out /\ stderr' = <<>>
            /\ UNCHANGED Others

\* A binary result lifted by From<CoreResult>, decomposed by branch, and rebuilt
\* as a binary result from discard_warnings of the continuation or from the
\* residual's error.
LiftNarrow ==
    \E r \in CoreResultOf(Vals, Errs) :
        LET b == branch(from_core_result(r))
            back == IF b.tag = "Continue"
                    THEN CoreOk(discard_warnings(b.val))
                    ELSE CoreErr(b.val.err)
        IN  /\ unit = "result"
            /\ op' = "lift_narrow" /\ recv' = r /\ fret' = Nil
            /\ calls' = <<>> /\ out' = back /\ stderr' = <<>>
            /\ UNCHANGED Others

Report ==
    \E self \in ResultOf(TermVals, Errs, Warns) :
        LET r == report(self)
        IN  /\ unit = "result"
            /\ op' = "report" /\ recv' = self /\ fret' = Nil /\ calls' = <<>>
            /\ out' = r.status /\ stderr' = r.lines
            /\ UNCHANGED Others

\* Result::from(r) for a binary result r.
Lift ==
    \E r \in CoreResultOf(Vals, Errs) :
        /\ unit = "result"
        /\ op' = "from" /\ recv' = r /\ fret' = Nil
        /\ calls' = <<>> /\ out' = from_core_result(r) /\ stderr' = <<>>
        /\ UNCHANGED Others

\* `r?` on a failed binary result in a function returning the tri-state Result.
LiftResidual ==
    \E e \in Errs :
        /\ unit = "result"
        /\ op' = "from_residual" /\ recv' = CoreErr(e) /\ fret' = Nil
        /\ calls' = <<>> /\ out' = core_from_residual(CoreErr(e)) /\ stderr' = <<>>
        /\ UNCHANGED Others

NextResult ==
    \/ Map \/ MapVal \/ MapWarn \/ MapErr \/ AndThen \/ OrElse
    \/ TransposeLossy \/ FlattenInner \/ FlattenOuter
    \/ LiftNarrow \/ Report \/ Lift \/ LiftResidual

\* --------------------------------------------------------- the from_iter unit
\* from_iter over a Vec-like container: collect() pulls from the scan adapter
\* until it yields None, which it does when the input ends or the closure
\* returns None.

RECURSIVE SeqsUpTo(_, _)
SeqsUpTo(S, n) ==
    IF n = 0 THEN {<<>>}
    ELSE LET shorter == SeqsUpTo(S, n - 1)
         IN  shorter \cup {Append(s, x) : s \in {t \in shorter : Len(t) = n - 1}, x \in S}

InitFromIter ==
    /\ unit = "from_iter"
    /\ NoResult /\ NoAssert
    /\ items \in SeqsUpTo(Results, MaxLen)
    /\ pos = 0
    /\ state = Ok(<<>>)
    /\ warns = <<>>
    /\ outv = <<>>
    /\ pc = "scan"

\* The scan closure putting each new diagnostic first.
scan_closure_prepends(st, ws, item) ==
    CASE item.tag = "Ok" ->
            [state |-> st, warns |-> ws, yield |-> Some(item.val)]
      [] item.tag = "Warn" ->
            [state |-> Warn(<<>>, <<>>), warns |-> <<item.warn>> \o ws,
             yield |-> Some(item.val)]
      [] item.tag = "Err" ->
            [state |-> Err(item.err), warns |-> ws, yield |-> None]

\* The closure given to scan: [state, warns, yield], yield = None ends the scan.
scan_closure(st, ws, item) ==
    CASE item.tag = "Ok" ->
            [state |-> st, warns |-> ws, yield |-> Some(item.val)]
      [] item.tag = "Warn" ->
            [state |-> Warn(<<>>, <<>>), warns |-> Append(ws, item.warn),
             yield |-> Some(item.val)]
      [] item.tag = "Err" ->
            [state |-> Err(item.err), warns |-> ws, yield |-> None]

\* One call of next() on the scan adapter by collect().
ScanNext ==
    /\ unit = "from_iter" /\ pc = "scan"
    /\ IF pos = Len(items)
       THEN /\ pc' = "match"
            /\ UNCHANGED <<pos, state, warns, outv>>
       ELSE LET r == scan_closure(state, warns, items[pos + 1])
            IN  /\ pos' = pos + 1
                /\ state' = r.state
                /\ warns' = r.warns
                /\ outv' = IF r.yield.tag = "Some" THEN Append(outv, r.yield.val) ELSE outv
                /\ pc' = IF r.yield.tag = "Some" THEN "scan" ELSE "match"
    /\ UNCHANGED <<unit, ResultVars, AssertVars, items>>

\* The final match reporting the diagnostics gathered before an Err as a Warn.
final_match_warn_first(st, o, ws) ==
    CASE ws # <<>>       -> Warn(o, ws)
      [] st.tag = "Ok"   -> Ok(o)
      [] st.tag = "Warn" -> Warn(o, ws)
      [] st.tag = "Err"  -> Err(st.err)

final_match(st, o, ws) ==
    CASE st.tag = "Ok"   -> Ok(o)
      [] st.tag = "Warn" -> Warn(o, ws)
      [] st.tag = "Err"  -> Err(st.err)

FinalMatch ==
    /\ unit = "from_iter" /\ pc = "match"
    /\ out' = final_match(state, outv, warns)
    /\ pc' = "done"
    /\ UNCHANGED <<unit, op, recv, fret, calls, stderr, AssertVars>>
    /\ UNCHANGED <<items, pos, state, warns, outv>>

NextFromIter == ScanNext \/ FinalMatch

\* ---------------------------------------------------- the from_iter_core unit
\* from_iter over binary results, into the same Vec-like container.

InitFromIterCore ==
    /\ unit = "from_iter_core"
    /\ NoResult /\ NoAssert
    /\ items \in SeqsUpTo(CoreResultOf(Vals, Errs), MaxLen)
    /\ pos = 0
    /\ state = CoreOk(<<>>)
    /\ warns = <<>>
    /\ outv = <<>>
    /\ pc = "scan"

\* The scan closure ending the scan on Err without recording it.
core_scan_closure_forgets(st, item) ==
    CASE item.tag = "CoreOk"  -> [state |-> st, yield |-> Some(item.val)]
      [] item.tag = "CoreErr" -> [state |-> st, yield |-> None]

\* The closure given to scan: [state, yield], yield = None ends the scan.
core_scan_closure(st, item) ==
    CASE item.tag = "CoreOk"  -> [state |-> st, yield |-> Some(item.val)]
      [] item.tag = "CoreErr" -> [state |-> CoreErr(item.err), yield |-> None]

\* One call of next() on the scan adapter by collect().
CoreScanNext ==
    /\ unit = "from_iter_core" /\ pc = "scan"
    /\ IF pos = Len(items)
       THEN /\ pc' = "match"
            /\ UNCHANGED <<pos, state, outv>>
       ELSE LET r == core_scan_closure(state, items[pos + 1])
            IN  /\ pos' = pos + 1
                /\ state' = r.state
                /\ outv' = IF r.yield.tag = "Some" THEN Append(outv, r.yield.val) ELSE outv
                /\ pc' = IF r.yield.tag = "Some" THEN "scan" ELSE "match"
    /\ UNCHANGED <<unit, ResultVars, AssertVars, items, warns>>

core_final_match(st, o) ==
    CASE st.tag = "CoreOk"  -> Ok(o)
      [] st.tag = "CoreErr" -> Err(st.err)

CoreFinalMatch ==
    /\ unit = "from_iter_core" /\ pc = "match"
    /\ out' = core_final_match(state, outv)
    /\ pc' = "done"
    /\ UNCHANGED <<unit, op, recv, fret, calls, stderr, AssertVars>>
    /\ UNCHANGED <<items, pos, state, warns, outv>>

NextFromIterCore == CoreScanNext \/ CoreFinalMatch

\* ------------------------------------------------------------ the assert unit

Locs == {"L1", "L2"}      \* call-site locations
Msgs == {"m1", "m2"}      \* messages the caller attaches

Lit(text) == [text |-> text, args |-> <<>>]

AssertSuccess == [tag |-> "Success"]
AssertFailure(loc, m) == [tag |-> "Failure", loc |-> loc, msg |-> m]

\* Drop for the Assert holding `inner`: the panics it raises.
drop(inner) ==
    IF inner.tag = "Failure"
    THEN <<[by |-> "drop", loc |-> inner.loc, msg |-> inner.msg]>>
    ELSE <<>>

\* inner_defuse reading the inner and leaving it in self.
inner_defuse_keeps(self) ==
    [taken |-> self, panics |-> drop(self)]

\* inner_defuse(mut self): the inner moved out, and the panics of dropping
\* self, which by then holds Success, as inner_defuse returns.
inner_defuse(self) ==
    LET left == AssertSuccess
    IN  [taken |-> self, panics |-> drop(left)]

success == AssertSuccess

failure(loc) == AssertFailure(loc, Lit("Assertion failed"))

\* The operations below return [val |-> the AssertInner of the Assert returned
\* (Nil when none is), panics |-> the panics raised, calls |-> the closure's
\* invocations]; a panic ends the operation where it is raised.

msg(self, m) ==
    LET d == inner_defuse(self)
    IN  IF d.panics # <<>>
        THEN [val |-> Nil, panics |-> d.panics, calls |-> 0]
        ELSE IF d.taken.tag = "Failure"
        THEN [val |-> AssertFailure(d.taken.loc, m), panics |-> <<>>, calls |-> 0]
        ELSE [val |-> d.taken, panics |-> <<>>, calls |-> 0]

\* with_msg building the message before it looks at the assertion.
with_msg_eager(self, f) ==
    LET d == inner_defuse(self)
    IN  IF d.panics # <<>>
        THEN [val |-> Nil, panics |-> d.panics, calls |-> 0]
        ELSE IF d.taken.tag = "Failure"
        THEN [val |-> AssertFailure(d.taken.loc, Lit(f)), panics |-> <<>>, calls |-> 1]
        ELSE [val |-> d.taken, panics |-> <<>>, calls |-> 1]

with_msg(self, f) ==
    LET d == inner_defuse(self)
    IN  IF d.panics # <<>>
        THEN [val |-> Nil, panics |-> d.panics, calls |-> 0]
        ELSE IF d.taken.tag = "Failure"
        THEN [val |-> AssertFailure(d.taken.loc, Lit(f)), panics |-> <<>>, calls |-> 1]
        ELSE [val |-> d.taken, panics |-> <<>>, calls |-> 0]

is_true(a, loc) ==
    IF a THEN [val |-> success, panics |-> <<>>, calls |-> 0]
    ELSE msg(failure(loc), Lit("Expected true, got false"))

is_false(a, loc) ==
    IF ~a THEN [val |-> success, panics |-> <<>>, calls |-> 0]
    ELSE msg(failure(loc), Lit("Expected false, got true"))

eq(a, b, loc) ==
    IF a = b THEN [val |-> success, panics |-> <<>>, calls |-> 0]
    ELSE msg(failure(loc), [text |-> "Expected {a:?} to equal {b:?}", args |-> <<a, b>>])

ne(a, b, loc) ==
    IF a # b THEN [val |-> success, panics |-> <<>>, calls |-> 0]
    ELSE msg(failure(loc), [text |-> "Expected {a:?} to not equal {b:?}", args |-> <<a, b>>])

to_panic(self) ==
    LET d == inner_defuse(self)
    IN  IF d.panics # <<>>
        THEN [val |-> Nil, panics |-> d.panics, calls |-> 0]
        ELSE IF d.taken.tag = "Failure"
        THEN [val |-> Nil, calls |-> 0,
              panics |-> <<[by |-> "to_panic", loc |-> d.taken.loc, msg |-> d.taken.msg]>>]
        ELSE [val |-> Nil, panics |-> <<>>, calls |-> 0]

defuse(self) ==
    LET d == inner_defuse(self)
    IN  [val |-> Nil, panics |-> d.panics, calls |-> 0]

\* Try::branch: [flow |-> Continue(unit) or Break(residual), panics].
assert_branch(self) ==
    LET d == inner_defuse(self)
    IN  IF d.panics # <<>>
        THEN [flow |-> Nil, panics |-> d.panics]
        ELSE IF d.taken.tag = "Failure"
        THEN [flow |-> Break([loc |-> d.taken.loc, msg |-> d.taken.msg]), panics |-> <<>>]
        ELSE [flow |-> Continue(<<>>), panics |-> <<>>]

\* from_residual rebuilding the failure with the default message.
assert_from_residual_default_msg(residual) ==
    AssertFailure(residual.loc, Lit("Assertion failed"))

assert_from_residual(residual) == AssertFailure(residual.loc, residual.msg)

result_from_residual(residual) == CoreErr(assert_from_residual(residual))

\* Debug for Assert: the line it formats.
debug_fmt(inner) ==
    IF inner.tag = "Failure"
    THEN [text |-> "Assertion Failed: {} at {}", msg |-> inner.msg, loc |-> inner.loc]
    ELSE [text |-> "Assertion Successful"]

\* Termination::report(self): the status it computes, the lines it prints, and
\* the panics of dropping self, which still holds its inner, as report returns.
assert_report(self) ==
    [status |-> IF self.tag = "Failure" THEN "FAILURE" ELSE "SUCCESS",
     lines  |-> IF self.tag = "Failure" THEN <<debug_fmt(self)>> ELSE <<>>,
     panics |-> drop(self)]

InitAssert ==
    /\ unit = "assert"
    /\ NoResult /\ NoIter /\ NoAssert

Rest == <<unit, ResultVars, IterVars>>

\* No value is live and the program has not panicked: one may be constructed.
CanConstruct == unit = "assert" /\ asrt = Nil /\ panics = <<>>

\* A value is live and the program has not panicked.
Live == unit = "assert" /\ asrt # Nil /\ panics = <<>>

Success ==
    /\ CanConstruct
    /\ asrt' = success /\ aprev' = Nil /\ aop' = "success"
    /\ panics' = <<>> /\ acalls' = 0 /\ flow' = Nil /\ aarg' = Nil /\ stdout' = <<>>
    /\ UNCHANGED Rest

Failure ==
    \E loc \in Locs :
        /\ CanConstruct
        /\ asrt' = failure(loc) /\ aprev' = Nil /\ aop' = "failure"
        /\ panics' = <<>> /\ acalls' = 0 /\ flow' = Nil /\ aarg' = Nil /\ stdout' = <<>>
        /\ UNCHANGED Rest

IsTrue ==
    \E a \in BOOLEAN, loc \in Locs :
        LET r == is_true(a, loc)
        IN  /\ CanConstruct
            /\ asrt' = r.val /\ aprev' = Nil /\ aop' = "is_true"
            /\ panics' = r.panics /\ acalls' = 0 /\ flow' = Nil /\ aarg' = Nil /\ stdout' = <<>>
            /\ UNCHANGED Rest

IsFalse ==
    \E a \in BOOLEAN, loc \in Locs :
        LET r == is_false(a, loc)
        IN  /\ CanConstruct
            /\ asrt' = r.val /\ aprev' = Nil /\ aop' = "is_false"
            /\ panics' = r.panics /\ acalls' = 0 /\ flow' = Nil /\ aarg' = Nil /\ stdout' = <<>>
            /\ UNCHANGED Rest

Eq ==
    \E a \in Vals, b \in Vals, loc \in Locs :
        LET r == eq(a, b, loc)
        IN  /\ CanConstruct
            /\ asrt' = r.val /\ aprev' = Nil /\ aop' = "eq"
            /\ panics' = r.panics /\ acalls' = 0 /\ flow' = Nil /\ aarg' = Nil /\ stdout' = <<>>
            /\ UNCHANGED Rest

Ne ==
    \E a \in Vals, b \in Vals, loc \in Locs :
        LET r == ne(a, b, loc)
        IN  /\ CanConstruct
            /\ asrt' = r.val /\ aprev' = Nil /\ aop' = "ne"
            /\ panics' = r.panics /\ acalls' = 0 /\ flow' = Nil /\ aarg' = Nil /\ stdout' = <<>>
            /\ UNCHANGED Rest

Msg ==
    \E m \in Msgs :
        LET r == msg(asrt, Lit(m))
        IN  /\ Live
            /\ asrt' = r.val /\ aprev' = asrt /\ aop' = "msg"
            /\ panics' = r.panics /\ acalls' = r.calls /\ flow' = Nil
            /\ aarg' = m /\ stdout' = <<>>
            /\ UNCHANGED Rest

WithMsg ==
    \E f \in Msgs :
        LET r == with_msg(asrt, f)
        IN  /\ Live
            /\ asrt' = r.val /\ aprev' = asrt /\ aop' = "with_msg"
            /\ panics' = r.panics /\ acalls' = r.calls /\ flow' = Nil
            /\ aarg' = f /\ stdout' = <<>>
            /\ UNCHANGED Rest

ToPanic ==
    LET r == to_panic(asrt)
    IN  /\ Live
        /\ asrt' = r.val /\ aprev' = asrt /\ aop' = "to_panic"
        /\ panics' = r.panics /\ acalls' = 0 /\ flow' = Nil /\ aarg' = Nil /\ stdout' = <<>>
        /\ UNCHANGED Rest

Defuse ==
    LET r == defuse(asrt)
    IN  /\ Live
        /\ asrt' = r.val /\ aprev' = asrt /\ aop' = "defuse"
        /\ panics' = r.panics /\ acalls' = 0 /\ flow' = Nil /\ aarg' = Nil /\ stdout' = <<>>
        /\ UNCHANGED Rest

\* `asrt?` in a function returning Assert (ret = "Assert") or Result<T, Assert>
\* (ret = "Result"): on Break the function returns from_residual(residual) and
\* the Assert it carries is the caller's live value; on Continue none is live.
Question ==
    \E ret \in {"Assert", "Result"} :
        LET b == assert_branch(asrt)
            returned == IF ret = "Assert"
                        THEN assert_from_residual(b.flow.val)
                        ELSE result_from_residual(b.flow.val)
        IN  /\ Live
            /\ aprev' = asrt /\ aop' = "question" /\ panics' = b.panics /\ acalls' = 0
            /\ aarg' = ret /\ stdout' = <<>>
            /\ IF b.flow # Nil /\ b.flow.tag = "Break"
               THEN /\ flow' = [tag |-> "Return", val |-> returned]
                    /\ asrt' = assert_from_residual(b.flow.val)
               ELSE /\ flow' = b.flow
                    /\ asrt' = Nil
            /\ UNCHANGED Rest

\* The live value goes out of scope: Drop runs on it.
ScopeExit ==
    /\ Live
    /\ asrt' = Nil /\ aprev' = asrt /\ aop' = "scope_exit"
    /\ panics' = drop(asrt) /\ acalls' = 0 /\ flow' = Nil /\ aarg' = Nil /\ stdout' = <<>>
    /\ UNCHANGED Rest

\* The live value is returned from main or a test and reported; a panic
\* unwinds out of report, which then returns no status.
AssertReport ==
    LET r == assert_report(asrt)
    IN  /\ Live
        /\ asrt' = Nil /\ aprev' = asrt /\ aop' = "report"
        /\ panics' = r.panics /\ acalls' = 0 /\ aarg' = Nil /\ stdout' = r.lines
        /\ flow' = IF r.panics = <<>> THEN [tag |-> "Exit", val |-> r.status] ELSE Nil
        /\ UNCHANGED Rest

NextAssert ==
    \/ Success \/ Failure \/ IsTrue \/ IsFalse \/ Eq \/ Ne
    \/ Msg \/ WithMsg \/ ToPanic \/ Defuse \/ Question \/ ScopeExit
    \/ AssertReport

\* ------------------------------------------------------------ specification

Init == InitResult \/ InitFromIter \/ InitFromIterCore \/ InitAssert

Next == NextResult \/ NextFromIter \/ NextFromIterCore \/ NextAssert

Spec == Init /\ [][Next]_vars

\* ------------------------------------------------------------------ claims
\* Helpers of the statements below.

Sev(r) ==
    CASE r.tag \in {"Ok", "MwOk"}     -> 0
      [] r.tag \in {"Warn", "MwWarn"} -> 1
      [] r.tag = "Err"                -> 2

MaxOf(S) == CHOOSE m \in S : \A x \in S : x <= m

CalledOp(name) == unit = "result" /\ op = name

Collected == unit = "from_iter" /\ pc = "done"

HasErr(s) == \E i \in 1..Len(s) : s[i].tag = "Err"

FirstErr(s) == CHOOSE i \in 1..Len(s) : s[i].tag = "Err" /\ \A j \in 1..(i - 1) : s[j].tag # "Err"

ValuesOf(s) == [i \in 1..Len(s) |-> s[i].val]

RECURSIVE WarnsOf(_)
WarnsOf(s) ==
    IF s = <<>> THEN <<>>
    ELSE IF s[1].tag = "Warn" THEN <<s[1].warn>> \o WarnsOf(Tail(s))
    ELSE WarnsOf(Tail(s))

\* The severities that contribute to the last combinator call: the receiver's,
\* the nested result's for a flatten, the closure's result when it was invoked.
Contributing ==
    {Sev(recv)}
    \cup (IF op \in {"map", "and_then", "or_else"} /\ calls # <<>> THEN {Sev(fret)} ELSE {})
    \cup (IF op \in {"flatten_inner", "flatten_outer"} /\ recv.tag # "Err"
          THEN {Sev(recv.val)} ELSE {})

SeverityOps ==
    {"map", "map_val", "map_warn", "map_err", "and_then", "or_else",
     "flatten_inner", "flatten_outer"}

\* C1 as stated: the output of every combinator and of collection has the
\* greatest severity among the contributing outcomes (Err over Warn over Ok).
C1_SeverityLawAsStated ==
    /\ (unit = "result" /\ op \in SeverityOps) => Sev(out) = MaxOf(Contributing)
    /\ CalledOp("transpose_lossy") => (out.tag = "Some" /\ Sev(out.val) = Sev(recv))
    /\ Collected => Sev(out) = MaxOf({0} \cup {Sev(items[i]) : i \in 1..Len(items)})

\* C1 amended: map_val, map_warn, map_err, flatten_inner, flatten_outer and
\* collection return the greatest severity among their inputs; map and and_then
\* return Err for an Err receiver and otherwise the severity of the closure's
\* result alone; or_else keeps the severity of an Ok or Warn receiver and
\* returns the severity of the closure's result for an Err receiver;
\* transpose_lossy keeps the severity when the value is Some or the receiver is
\* Err, and returns None for Ok(None) and Warn(None, w).
C1_SeverityLaw ==
    /\ (unit = "result"
        /\ op \in {"map_val", "map_warn", "map_err", "flatten_inner", "flatten_outer"})
       => Sev(out) = MaxOf(Contributing)
    /\ (unit = "result" /\ op \in {"map", "and_then"})
       => Sev(out) = IF recv.tag = "Err" THEN 2 ELSE Sev(fret)
    /\ CalledOp("or_else")
       => Sev(out) = IF recv.tag = "Err" THEN Sev(fret) ELSE Sev(recv)
    /\ CalledOp("transpose_lossy")
       => IF recv.tag # "Err" /\ recv.val.tag = "None"
          THEN out = None
          ELSE out.tag = "Some" /\ Sev(out.val) = Sev(recv)
    /\ Collected => Sev(out) = MaxOf({0} \cup {Sev(items[i]) : i \in 1..Len(items)})

C1_Witness ==
    /\ CalledOp("map")
    /\ recv = Warn(1, "a") /\ fret = MwOk(2)
    /\ calls = <<MwWarn(1, "a")>>
    /\ out = Ok(2)

\* C2: collecting a sequence with no Err yields every value in input order, as
\* Warn with the in-order diagnostics of exactly the Warn items when there is
\* one, and as Ok otherwise (the empty sequence included).
C2_AggregationCompleteness ==
    (Collected /\ ~HasErr(items))
    => out = IF \E i \in 1..Len(items) : items[i].tag = "Warn"
             THEN Warn(ValuesOf(items), WarnsOf(items))
             ELSE Ok(ValuesOf(items))

C2_Witness ==
    /\ Collected
    /\ items = <<Ok(1), Warn(2, "a"), Ok(1), Warn(2, "b")>>
    /\ out = Warn(<<1, 2, 1, 2>>, <<"a", "b">>)

\* C3: with an Err in the input, no item after the first Err is ever pulled,
\* the diagnostics are at every step those of the Warn items pulled so far, and
\* the result is Err of the first Err's payload.
C3_AggregationShortCircuit ==
    (unit = "from_iter" /\ HasErr(items))
    => /\ pos <= FirstErr(items)
       /\ warns = WarnsOf(SubSeq(items, 1, pos))
       /\ pc \in {"match", "done"} => pos = FirstErr(items)
       /\ pc = "done" => out = Err(items[FirstErr(items)].err)

C3_Witness ==
    /\ Collected
    /\ items = <<Ok(1), Warn(2, "a"), Err("e1"), Warn(1, "b")>>
    /\ pos = 3 /\ warns = <<"a">>
    /\ out = Err("e1")

\* C4: on Warn(Warn(v, wi), wo) flatten_inner returns Warn(v, wi) and
\* flatten_outer returns Warn(v, wo); on every other nesting each returns what
\* the other one returns.
C4_FlattenPrecedence ==
    /\ CalledOp("flatten_inner")
       => IF recv.tag = "Warn" /\ recv.val.tag = "Warn"
          THEN out = Warn(recv.val.val, recv.val.warn)
          ELSE out = flatten_outer(recv)
    /\ CalledOp("flatten_outer")
       => IF recv.tag = "Warn" /\ recv.val.tag = "Warn"
          THEN out = Warn(recv.val.val, recv.warn)
          ELSE out = flatten_inner(recv)

C4_Witness ==
    /\ CalledOp("flatten_outer")
    /\ recv = Warn(Warn(1, "a"), "b")
    /\ out = Warn(1, "b")

\* C5: transpose_lossy returns None for Ok(None) and for Warn(None, w), whose
\* diagnostic is then nowhere in the output, and Some(Ok(v)), Some(Warn(v, w)),
\* Some(Err(e)) for Ok(Some(v)), Warn(Some(v), w), Err(e).
C5_LossyTranspose ==
    CalledOp("transpose_lossy")
    => CASE recv.tag = "Err" -> out = Some(Err(recv.err))
         [] recv.tag = "Ok" /\ recv.val.tag = "None" -> out = None
         [] recv.tag = "Warn" /\ recv.val.tag = "None" -> out = None
         [] recv.tag = "Ok" /\ recv.val.tag = "Some" -> out = Some(Ok(recv.val.val))
         [] recv.tag = "Warn" /\ recv.val.tag = "Some" ->
                out = Some(Warn(recv.val.val, recv.warn))

C5_Witness ==
    /\ CalledOp("transpose_lossy")
    /\ recv = Warn(None, "a")
    /\ out = None

\* C6: a binary result lifted into the tri-state Result and narrowed back
\* through branch and discard_warnings is the binary result it started as.
C6_RoundTripLift == CalledOp("lift_narrow") => out = recv

C6_Witness ==
    /\ CalledOp("lift_narrow")
    /\ recv = CoreErr("e1")
    /\ out = CoreErr("e1")

DropPanicked == \E i \in 1..Len(panics) : panics[i].by = "drop"

\* C7: the panic of Drop is raised exactly when a value in the Failure state
\* goes out of scope (at the end of its scope or of a report that was handed
\* it); a Success value going out of scope, and a value taken by
\* msg, with_msg, `?`, to_panic or defuse, raise none, and no second panic
\* follows a first.
C7_DropSafety ==
    unit = "assert"
    => /\ Len(panics) <= 1
       /\ DropPanicked <=> (aop \in {"scope_exit", "report"} /\ aprev.tag = "Failure")
       /\ (aop = "scope_exit" /\ aprev.tag = "Failure")
          => panics = <<[by |-> "drop", loc |-> aprev.loc, msg |-> aprev.msg]>>
       /\ aop \in {"to_panic", "defuse"} => asrt = Nil
       /\ (aop = "to_panic" /\ aprev.tag = "Failure")
          => panics = <<[by |-> "to_panic", loc |-> aprev.loc, msg |-> aprev.msg]>>

C7_Witness ==
    /\ unit = "assert" /\ aop = "scope_exit"
    /\ aprev = AssertFailure("L1", Lit("m1"))
    /\ DropPanicked

\* C8 as stated: report returns the failure status exactly for Err and the
\* success status for Ok and Warn; Warn writes its diagnostic line first, Ok
\* writes nothing, Err writes the error line.
C8_ReportAsStated ==
    CalledOp("report")
    => /\ (out = "FAILURE") <=> (recv.tag = "Err")
       /\ recv.tag \in {"Ok", "Warn"} => out = "SUCCESS"
       /\ recv.tag = "Warn" => (stderr # <<>> /\ stderr[1] = <<"Warning", recv.warn>>)
       /\ recv.tag = "Ok" => stderr = <<>>
       /\ recv.tag = "Err" => stderr = <<<<"Error", recv.err>>>>

\* C8 amended: report returns the failure status for Err, writing the error
\* line, and for Ok and Warn the status that reporting the carried value
\* returns; Warn writes its diagnostic line before the carried value is
\* reported, and Ok writes no line of its own.
C8_Report ==
    CalledOp("report")
    => CASE recv.tag = "Err" ->
                out = "FAILURE" /\ stderr = <<<<"Error", recv.err>>>>
         [] recv.tag = "Ok" ->
                out = recv.val.code /\ stderr = recv.val.lines
         [] recv.tag = "Warn" ->
                /\ out = recv.val.code
                /\ stderr = <<<<"Warning", recv.warn>>>> \o recv.val.lines

C8_Witness ==
    /\ CalledOp("report")
    /\ recv.tag = "Warn" /\ recv.val.code = "SUCCESS" /\ recv.val.lines # <<>>
    /\ out = "SUCCESS"
    /\ stderr[1] = <<"Warning", recv.warn>> /\ Len(stderr) = 2

\* C9: map and and_then on Err(e) return Err(e) without invoking f; on Ok(v)
\* or Warn(v, w) they invoke f once, with MaybeWarn::Ok(v) or
\* MaybeWarn::Warn(v, w), and return its result (map: as Ok for Ok, Warn for
\* Warn).
C9_ShortCircuit ==
    (unit = "result" /\ op \in {"map", "and_then"})
    => CASE recv.tag = "Err" -> calls = <<>> /\ out = Err(recv.err)
         [] recv.tag = "Ok" ->
                /\ calls = <<MwOk(recv.val)>>
                /\ op = "and_then" => out = fret
                /\ (op = "map" /\ fret.tag = "MwOk") => out = Ok(fret.val)
                /\ (op = "map" /\ fret.tag = "MwWarn") => out = Warn(fret.val, fret.warn)
         [] recv.tag = "Warn" ->
                /\ calls = <<MwWarn(recv.val, recv.warn)>>
                /\ op = "and_then" => out = fret
                /\ (op = "map" /\ fret.tag = "MwOk") => out = Ok(fret.val)
                /\ (op = "map" /\ fret.tag = "MwWarn") => out = Warn(fret.val, fret.warn)

C9_Witness ==
    /\ CalledOp("map")
    /\ recv = Warn(1, "a") /\ fret = MwWarn(2, "b")
    /\ calls = <<MwWarn(1, "a")>>
    /\ out = Warn(2, "b")

\* C10: map_val, map_warn, map_err and or_else invoke f once on the payload
\* they target and not at all when it is absent; the result is the receiver
\* with that payload replaced by f's result (or_else on Err: f's result), and
\* the receiver itself when f is not invoked.
C10_PayloadTargeted ==
    /\ CalledOp("map_val")
       => CASE recv.tag = "Ok"   -> calls = <<recv.val>> /\ out = Ok(fret)
            [] recv.tag = "Warn" -> calls = <<recv.val>> /\ out = Warn(fret, recv.warn)
            [] recv.tag = "Err"  -> calls = <<>> /\ out = recv
    /\ CalledOp("map_warn")
       => CASE recv.tag = "Ok"   -> calls = <<>> /\ out = recv
            [] recv.tag = "Warn" -> calls = <<recv.warn>> /\ out = Warn(recv.val, fret)
            [] recv.tag = "Err"  -> calls = <<>> /\ out = recv
    /\ CalledOp("map_err")
       => CASE recv.tag = "Ok"   -> calls = <<>> /\ out = recv
            [] recv.tag = "Warn" -> calls = <<>> /\ out = recv
            [] recv.tag = "Err"  -> calls = <<recv.err>> /\ out = Err(fret)
    /\ CalledOp("or_else")
       => CASE recv.tag = "Ok"   -> calls = <<>> /\ out = recv
            [] recv.tag = "Warn" -> calls = <<>> /\ out = recv
            [] recv.tag = "Err"  -> calls = <<recv.err>> /\ out = fret

C10_Witness ==
    /\ CalledOp("or_else")
    /\ recv = Warn(2, "b") /\ fret = Err("e1")
    /\ calls = <<>>
    /\ out = Warn(2, "b")

HasCoreErr(s) == \E i \in 1..Len(s) : s[i].tag = "CoreErr"

FirstCoreErr(s) ==
    CHOOSE i \in 1..Len(s) : s[i].tag = "CoreErr" /\ \A j \in 1..(i - 1) : s[j].tag # "CoreErr"

\* C11: a binary result never produces Warn: From gives Ok(x) for Ok(x) and
\* Err(e) for Err(e), the failure residual lifts to Err(e), and collecting
\* binary results gives Ok of all values in order when none fails and Err of
\* the first failure otherwise, no item after that failure being pulled.
C11_BinaryNeverWarns ==
    /\ CalledOp("from")
       => /\ recv.tag = "CoreOk" => out = Ok(recv.val)
          /\ recv.tag = "CoreErr" => out = Err(recv.err)
    /\ CalledOp("from_residual") => out = Err(recv.err)
    /\ unit = "from_iter_core"
       => /\ HasCoreErr(items) => pos <= FirstCoreErr(items)
          /\ (HasCoreErr(items) /\ pc \in {"match", "done"}) => pos = FirstCoreErr(items)
          /\ (HasCoreErr(items) /\ pc = "done")
             => out = Err(items[FirstCoreErr(items)].err)
          /\ (~HasCoreErr(items) /\ pc = "done") => out = Ok(ValuesOf(items))
          /\ out.tag # "Warn"

C11_Witness ==
    /\ unit = "from_iter_core" /\ pc = "done"
    /\ items = <<CoreOk(1), CoreErr("e2"), CoreOk(2), CoreErr("e1")>>
    /\ pos = 2
    /\ out = Err("e2")

C12_Attached ==
    (unit = "assert" /\ aop \in {"msg", "with_msg"})
    => /\ panics = <<>>
       /\ aprev.tag = "Success" => (asrt = AssertSuccess /\ acalls = 0)
       /\ aprev.tag = "Failure"
          => /\ asrt = AssertFailure(aprev.loc, Lit(aarg))
             /\ aop = "with_msg" => acalls = 1
             /\ aop = "msg" => acalls = 0

C12_ThenToPanic ==
    (unit = "assert" /\ aop \in {"msg", "with_msg"} /\ asrt.tag = "Failure"
     /\ aop' = "to_panic")
    => panics' = <<[by |-> "to_panic", loc |-> aprev.loc, msg |-> Lit(aarg)]>>

\* C12: msg and with_msg on a successful Assert return a successful one without
\* calling the closure; on a failed one they return a failed one with the same
\* location and the new message, the closure called once; neither panics, and
\* a to_panic that follows panics with the new message.
C12_MessageAttachment == [](C12_Attached) /\ [][C12_ThenToPanic]_vars

C12_Witness ==
    /\ unit = "assert" /\ aop = "with_msg" /\ aarg = "m1"
    /\ aprev = AssertFailure("L1", Lit("Expected true, got false"))
    /\ asrt = AssertFailure("L1", Lit("m1"))
    /\ acalls = 1 /\ panics = <<>>

\* C13: ? on a successful Assert continues with unit; on a failed one the
\* function returns a failed Assert (in Err for Result<T, Assert>) with the
\* same location and message; the step raises no panic.
C13_Propagation ==
    (unit = "assert" /\ aop = "question")
    => /\ panics = <<>>
       /\ aprev.tag = "Success" => (flow.tag = "Continue" /\ asrt = Nil)
       /\ aprev.tag = "Failure"
          => /\ flow.tag = "Return"
             /\ aarg = "Assert" => flow.val = AssertFailure(aprev.loc, aprev.msg)
             /\ aarg = "Result" => flow.val = CoreErr(AssertFailure(aprev.loc, aprev.msg))

C13_Witness ==
    /\ unit = "assert" /\ aop = "question" /\ aarg = "Result"
    /\ aprev = AssertFailure("L2", Lit("m2"))
    /\ flow = [tag |-> "Return", val |-> CoreErr(AssertFailure("L2", Lit("m2")))]
    /\ panics = <<>>

\* C14: report of an Assert completes normally: it returns the failure status
\* after printing the failure for a failed Assert and the success status for a
\* successful one, and raises no panic of Drop.
C14_ReportCompletes ==
    (unit = "assert" /\ aop = "report")
    => /\ panics = <<>>
       /\ flow.tag = "Exit"
       /\ aprev.tag = "Failure" => (flow.val = "FAILURE" /\ stdout = <<debug_fmt(aprev)>>)
       /\ aprev.tag = "Success" => (flow.val = "SUCCESS" /\ stdout = <<>>)

====
